---------------------------- MODULE Spec2Model ----------------------------
(***************************************************************************)
(* uhh: a terminal UI that turns a natural-language request into a shell   *)
(* command through a remote completion service, has the command checked    *)
(* for safety, and optionally replaces the process with it.                *)
(*                                                                         *)
(* The model is the main loop of App::run (src/src/app.rs) with the key    *)
(* handler, the two background tasks it spawns, the error shaping of       *)
(* InferenceEngine::completion (src/src/infer.rs) and the cursor insertion *)
(* done by the renderer (src/src/ui.rs).                                   *)
(*                                                                         *)
(* A text is a sequence of characters.  A Rust String is UTF-8: every      *)
(* character has a width in bytes, String::len is the byte length and the  *)
(* cursors are byte offsets.                                               *)
(***************************************************************************)
EXTENDS Integers, Sequences, FiniteSets, TLC

(***************************************************************************)
(* Bounds of the model.                                                    *)
(***************************************************************************)
\* Key events of one run that edit a text or post an event (the keys that
\* move the focus or do nothing are not counted).
MaxKeys == 3

(***************************************************************************)
(* Characters and texts.                                                   *)
(***************************************************************************)
\* U+00E9, the one character of the model whose UTF-8 encoding has two bytes.
EAcute == "e_acute"

\* char::len_utf8 for the characters of the model.
Width(c) == IF c = EAcute THEN 2 ELSE 1

\* char::is_whitespace for the characters of the model.
IsWhitespace(c) == c = " "

\* The bytes of the characters lo .. hi of s, summed by halves.
RECURSIVE BytesIn(_, _, _)
BytesIn(s, lo, hi) ==
    IF lo > hi THEN 0
    ELSE IF lo = hi THEN Width(s[lo])
    ELSE LET mid == (lo + hi) \div 2
         IN  BytesIn(s, lo, mid) + BytesIn(s, mid + 1, hi)

\* String::len: the length in bytes.
ByteLen(s) == BytesIn(s, 1, Len(s))

\* The byte offset idx, counted from the start of character lo, looked up
\* among the characters lo .. hi of s: the number of characters of s before
\* that offset, or -1 when the offset lies inside a character or beyond
\* character hi.
RECURSIVE CharsUpTo(_, _, _, _)
CharsUpTo(s, lo, hi, idx) ==
    IF idx = 0 THEN lo - 1
    ELSE IF lo > hi THEN -1
    ELSE IF lo = hi THEN (IF idx = Width(s[lo]) THEN lo ELSE -1)
    ELSE LET mid == (lo + hi) \div 2
             left == BytesIn(s, lo, mid)
         IN  IF idx <= left
             THEN CharsUpTo(s, lo, mid, idx)
             ELSE CharsUpTo(s, mid + 1, hi, idx - left)

\* str::is_char_boundary.
IsCharBoundary(s, idx) == CharsUpTo(s, 1, Len(s), idx) >= 0

\* The number of characters before byte offset idx, a character boundary.
CharsBefore(s, idx) == CharsUpTo(s, 1, Len(s), idx)

\* String::insert(idx, ch) when idx is a character boundary.
StrInsert(s, idx, ch) ==
    LET p == CharsBefore(s, idx)
    IN  SubSeq(s, 1, p) \o <<ch>> \o SubSeq(s, p + 1, Len(s))

\* String::remove(idx) when idx is the start of a character.
StrRemove(s, idx) ==
    LET p == CharsBefore(s, idx)
    IN  SubSeq(s, 1, p) \o SubSeq(s, p + 2, Len(s))

\* String::insert panics unless idx is a character boundary.
InsertPanics(s, idx) == ~IsCharBoundary(s, idx)

\* String::remove panics unless a character starts at idx.
RemovePanics(s, idx) == ~IsCharBoundary(s, idx) \/ idx >= ByteLen(s)

\* str::trim_start and str::trim.
RECURSIVE TrimStart(_)
TrimStart(s) ==
    IF s # <<>> /\ IsWhitespace(Head(s)) THEN TrimStart(Tail(s)) ELSE s

RECURSIVE TrimEnd(_)
TrimEnd(s) ==
    IF s # <<>> /\ IsWhitespace(s[Len(s)])
    THEN TrimEnd(SubSeq(s, 1, Len(s) - 1))
    ELSE s

Trim(s) == TrimEnd(TrimStart(s))

\* A variant of IsBlank that forgets the trim.
IsBlankUntrimmed(s) == s = <<>>

\* text.trim().is_empty().
IsBlank(s) == Trim(s) = <<>>

\* str::starts_with(char).
StartsWith(s, c) == s # <<>> /\ Head(s) = c

\* The decimal digits of a natural number, as u16's Display prints them.
DigitChar(d) == <<"0","1","2","3","4","5","6","7","8","9">>[d + 1]

RECURSIVE Decimal(_)
Decimal(n) ==
    IF n < 10 THEN <<DigitChar(n)>> ELSE Decimal(n \div 10) \o <<DigitChar(n % 10)>>


(***************************************************************************)
(* Text literals of the program.                                           *)
(***************************************************************************)
\* "Error: " of format!("Error: {}", error).
ErrorPrefix == <<"E","r","r","o","r",":"," ">>

\* "Safety check error: " of format!("Safety check error: {}", error).
SafetyErrorPrefix ==
    <<"S","a","f","e","t","y"," ","c","h","e","c","k"," ","e","r","r","o","r",":"," ">>

\* "No response received".
NoResponse ==
    <<"N","o"," ","r","e","s","p","o","n","s","e"," ","r","e","c","e","i","v","e","d">>

\* "No safety check response received".
NoSafetyResponse ==
    <<"N","o"," ","s","a","f","e","t","y"," ","c","h","e","c","k"," ",
      "r","e","s","p","o","n","s","e"," ","r","e","c","e","i","v","e","d">>

\* "API request failed with status " of the eyre! message.
ApiFailedPrefix ==
    <<"A","P","I"," ","r","e","q","u","e","s","t"," ","f","a","i","l","e","d"," ",
      "w","i","t","h"," ","s","t","a","t","u","s"," ">>

\* ": " between the status and the body in the eyre! message.
StatusSep == <<":"," ">>

(***************************************************************************)
(* The completion service, as InferenceEngine::completion sees it.         *)
(***************************************************************************)
\* StatusCode::is_success: 200..=299.
IsSuccess(status) == status >= 200 /\ status <= 299

\* StatusCode::canonical_reason for the status codes of the model.
CanonicalReason(status) ==
    CASE status = 500 ->
           <<"I","n","t","e","r","n","a","l"," ","S","e","r","v","e","r"," ",
             "E","r","r","o","r">>
      [] status = 429 ->
           <<"T","o","o"," ","M","a","n","y"," ","R","e","q","u","e","s","t","s">>
      [] status = 200 -> <<"O","K">>
      [] OTHER ->
           <<"<","u","n","k","n","o","w","n"," ","s","t","a","t","u","s"," ",
             "c","o","d","e",">">>

\* A variant of StatusDisplay that prints the number alone.
StatusNumber(status) == Decimal(status)

\* `{}` of a StatusCode: the number, a space and the canonical reason.
StatusDisplay(status) == Decimal(status) \o <<" ">> \o CanonicalReason(status)

\* The message of the error returned for a non-2xx reply.
ApiFailedMessage(status, body) ==
    ApiFailedPrefix \o StatusDisplay(status) \o StatusSep \o body

\* Messages of the errors `?` propagates: the request could not be sent, the
\* body could not be decoded.
SendErrorMessage == <<"s","e","n","d">>
DecodeErrorMessage == <<"d","e","c","o","d","e">>

\* Bodies of non-2xx replies.
RateLimited == <<"r","a","t","e"," ","l","i","m","i","t","e","d">>

\* What one HTTP call can come back with.
Transport == [kind |-> "transport", status |-> 0, body |-> <<>>, choices |-> <<>>]
HttpFailure(status, body) ==
    [kind |-> "status", status |-> status, body |-> body, choices |-> <<>>]
Malformed == [kind |-> "malformed", status |-> 200, body |-> <<>>, choices |-> <<>>]
HttpOk(choices) ==
    [kind |-> "ok", status |-> 200, body |-> <<>>, choices |-> choices]

\* Result<CompletionResponse>.
Ok(choices) == [ok |-> TRUE, choices |-> choices, msg |-> <<>>]
Err(msg) == [ok |-> FALSE, choices |-> <<>>, msg |-> msg]

\* InferenceEngine::completion applied to the reply of the service.
completion(reply) ==
    IF reply.kind = "transport" THEN Err(SendErrorMessage)
    ELSE IF ~IsSuccess(reply.status)
         THEN Err(ApiFailedMessage(reply.status, reply.body))
    ELSE IF reply.kind = "malformed" THEN Err(DecodeErrorMessage)
    ELSE Ok(reply.choices)

\* Replies to imagine_command: a command with a two-byte character, two
\* choices (the first one blank), no choice, a non-2xx status.
CommandReplies ==
    { HttpOk(<< <<EAcute>> >>),
      HttpOk(<< <<" ">>, <<"r","m">> >>),
      HttpOk(<<>>),
      HttpFailure(500, RateLimited) }

\* Replies to inspect_command: verdicts (one of them with a second choice),
\* an empty verdict, no choice, a request that could not be sent.
VerdictReplies ==
    { HttpOk(<< <<"Y">> >>),
      HttpOk(<< <<" ","N","o">>, <<"Y">> >>),
      HttpOk(<< <<>> >>),
      HttpOk(<<>>),
      Transport }

(***************************************************************************)
(* Events of the internal queue and key events.                            *)
(***************************************************************************)
\* No reply: the event was not posted by a background task.
NoReply == [kind |-> "none", status |-> 0, body |-> <<>>, choices |-> <<>>]

\* An AppEvent.  origin and reply are bookkeeping of the model: the number
\* of the request whose background task posted the event (0 for the main
\* loop) and the reply of the service that task received.
AppEvent(type, arg, origin) ==
    [type |-> type, arg |-> arg, origin |-> origin, reply |-> NoReply]

\* The event, marked with the reply its task received.
PostedFor(event, reply) == [event EXCEPT !.reply = reply]

\* Characters the keyboard of the model can type.
TypedChars == {"a", " ", EAcute}

KeyOf(code, ch, ctrl) == [code |-> code, ch |-> ch, ctrl |-> ctrl]

\* Key events of the model: KeyCode and whether modifiers == CONTROL.
Keys ==
    { KeyOf(code, "", FALSE) : code \in {"Esc", "Up", "Down", "Enter", "Backspace", "Tab"} }
      \cup { KeyOf("Char", c, FALSE) : c \in TypedChars }
      \cup { KeyOf("Char", "c", TRUE) }

\* focused_pane: 0 is the input pane, 1 the output pane.
Input == 0
Output == 1

(***************************************************************************)
(* State.                                                                  *)
(***************************************************************************)
VARIABLES
    \* The fields of App.
    running, focused_pane, input_text, response_text, safety_check_text,
    input_cursor, response_cursor, is_loading_completion,
    is_loading_safety_check, safety_status,
    \* The internal queue of AppEvents, oldest first.
    queue,
    \* The background tasks whose network call has not returned.
    tasks,
    \* The process: "loop", "panicked", "replaced" (exec succeeded) or
    \* "failed" (exec failed and run returned the error).
    proc,
    \* Whether ratatui::restore was called by execute_command.
    terminal_restored,
    \* The calls of `sh -c` made so far.
    executed,
    \* Counted key events delivered so far.
    keys,
    \* Completion tasks spawned so far.
    requests,
    \* The key or AppEvent the loop handled last (bookkeeping of the model).
    last

session ==
    <<running, focused_pane, input_text, response_text, safety_check_text,
      input_cursor, response_cursor, is_loading_completion,
      is_loading_safety_check, safety_status>>

vars ==
    <<running, focused_pane, input_text, response_text, safety_check_text,
      input_cursor, response_cursor, is_loading_completion,
      is_loading_safety_check, safety_status,
      queue, tasks, proc, terminal_restored, executed, keys, requests, last>>

NoEvent == AppEvent("None", <<>>, 0)

\* App::default.
Init ==
    /\ running = TRUE
    /\ focused_pane = 0
    /\ input_text = <<>>
    /\ response_text = <<>>
    /\ safety_check_text = <<>>
    /\ input_cursor = 0
    /\ response_cursor = 0
    /\ is_loading_completion = FALSE
    /\ is_loading_safety_check = FALSE
    /\ safety_status = "Unknown"
    /\ queue = <<>>
    /\ tasks = {}
    /\ proc = "loop"
    /\ terminal_restored = FALSE
    /\ executed = <<>>
    /\ keys = 0
    /\ requests = 0
    /\ last = NoEvent

(***************************************************************************)
(* The renderer and the event sources.                                     *)
(***************************************************************************)
\* Widget::render inserts '|' at the cursor of the focused pane, into a copy
\* of its text: display_text.insert(cursor, '|').
DrawPanics ==
    \/ focused_pane = 0 /\ InsertPanics(input_text, input_cursor)
    \/ focused_pane = 1 /\ InsertPanics(response_text, response_cursor)

\* A variant of LoopAwaits that forgets the loop condition.
LoopAwaitsWhileStopped == proc = "loop" /\ ~DrawPanics

\* The loop has drawn the frame and awaits self.events.next().
LoopAwaits == proc = "loop" /\ running /\ ~DrawPanics

\* A variant of send that puts the event in front of the waiting ones.
sendFirst(e) == queue' = <<e>> \o queue

\* EventHandler::send: append to the internal queue.
send(e) == queue' = Append(queue, e)

\* terminal.draw panics: the process ends.
DrawPanic ==
    /\ proc = "loop" /\ running /\ DrawPanics
    /\ proc' = "panicked"
    /\ UNCHANGED <<session, queue, tasks, terminal_restored, executed, keys,
                   requests, last>>

\* Event::Tick => self.tick(), which does nothing.
Tick ==
    /\ LoopAwaits
    /\ UNCHANGED vars

(***************************************************************************)
(* App::handle_key_events.                                                 *)
(***************************************************************************)
\* The keys the model counts: those that edit a text or send an AppEvent.
Counted(k) == k.code \in {"Esc", "Enter", "Char", "Backspace"}

\* KeyCode::Char(c) on a pane: text.insert(cursor, c); cursor += 1.
InsertChar(text, cursor, c) ==
    IF InsertPanics(text, cursor)
    THEN [text |-> text, cursor |-> cursor, panic |-> TRUE]
    ELSE [text |-> StrInsert(text, cursor, c), cursor |-> cursor + 1,
          panic |-> FALSE]

\* KeyCode::Backspace on a pane:
\* if cursor > 0 { cursor -= 1; text.remove(cursor); }.
Backspace(text, cursor) ==
    IF cursor > 0
    THEN IF RemovePanics(text, cursor - 1)
         THEN [text |-> text, cursor |-> cursor - 1, panic |-> TRUE]
         ELSE [text |-> StrRemove(text, cursor - 1), cursor |-> cursor - 1,
               panic |-> FALSE]
    ELSE [text |-> text, cursor |-> cursor, panic |-> FALSE]

\* A variant of ToggleFocus that steps to the next pane number.
ToggleFocusNext(pane) == pane + 1

\* KeyCode::Up | KeyCode::Down.
ToggleFocus(pane) == IF pane = 0 THEN 1 ELSE 0

\* The pane's text after an edit key, or the pane as it is.
Edited(k, text, cursor) ==
    IF k.code = "Char" THEN InsertChar(text, cursor, k.ch)
    ELSE Backspace(text, cursor)

\* KeyCode::Esc, and Ctrl-C: self.events.send(AppEvent::Quit).
QuitKey ==
    /\ send(AppEvent("Quit", <<>>, 0))
    /\ UNCHANGED <<session, proc>>

\* KeyCode::Up | KeyCode::Down: the focus moves to the other pane.
FocusKey ==
    /\ focused_pane' = ToggleFocus(focused_pane)
    /\ UNCHANGED <<running, input_text, response_text, safety_check_text,
                   input_cursor, response_cursor, is_loading_completion,
                   is_loading_safety_check, safety_status, queue, proc>>

\* A variant of EnterOnInput that sends the trimmed text.
EnterOnInputTrimmed ==
    /\ send(AppEvent("RequestCompletion", Trim(input_text), 0))
    /\ UNCHANGED <<session, proc>>

\* KeyCode::Enter if self.focused_pane == 0.
EnterOnInput ==
    /\ send(AppEvent("RequestCompletion", input_text, 0))
    /\ UNCHANGED <<session, proc>>

\* KeyCode::Enter if self.focused_pane == 1.
EnterOnOutput ==
    /\ send(AppEvent("ExecuteCommand", response_text, 0))
    /\ UNCHANGED <<session, proc>>

\* KeyCode::Char(c) and KeyCode::Backspace if self.focused_pane == 0.
EditInput(k) ==
    LET e == Edited(k, input_text, input_cursor)
    IN  /\ input_text' = e.text
        /\ input_cursor' = e.cursor
        /\ proc' = IF e.panic THEN "panicked" ELSE proc
        /\ UNCHANGED <<running, focused_pane, response_text,
                       safety_check_text, response_cursor,
                       is_loading_completion, is_loading_safety_check,
                       safety_status, queue>>

\* KeyCode::Char(c) and KeyCode::Backspace if self.focused_pane == 1.
EditOutput(k) ==
    LET e == Edited(k, response_text, response_cursor)
    IN  /\ response_text' = e.text
        /\ response_cursor' = e.cursor
        /\ proc' = IF e.panic THEN "panicked" ELSE proc
        /\ UNCHANGED <<running, focused_pane, input_text,
                       safety_check_text, input_cursor,
                       is_loading_completion, is_loading_safety_check,
                       safety_status, queue>>

\* The match of handle_key_events, its arms in the order of the source.
handle_key_events(k) ==
    IF k.code = "Esc" \/ (k.code = "Char" /\ k.ch \in {"c", "C"} /\ k.ctrl)
    THEN QuitKey
    ELSE IF k.code \in {"Up", "Down"} THEN FocusKey
    ELSE IF k.code = "Enter" /\ focused_pane = 0 THEN EnterOnInput
    ELSE IF k.code = "Enter" /\ focused_pane = 1 THEN EnterOnOutput
    ELSE IF k.code \in {"Char", "Backspace"} /\ focused_pane = 0 THEN EditInput(k)
    ELSE IF k.code \in {"Char", "Backspace"} /\ focused_pane = 1 THEN EditOutput(k)
    ELSE UNCHANGED <<session, queue, proc>>

\* The arm of the match a key event takes, whatever the focused pane.
KeyArm(k) ==
    IF k.code = "Esc" \/ (k.code = "Char" /\ k.ch \in {"c", "C"} /\ k.ctrl)
    THEN "Quit"
    ELSE IF k.code \in {"Up", "Down"} THEN "Focus"
    ELSE IF k.code \in {"Enter", "Char", "Backspace"} THEN k.code
    ELSE "Other"

\* Event::Crossterm(Key(key_event)) => self.handle_key_events(key_event).
Key ==
    /\ LoopAwaits
    /\ \E k \in Keys :
        /\ Counted(k) => keys < MaxKeys
        /\ keys' = IF Counted(k) THEN keys + 1 ELSE keys
        /\ last' = AppEvent("Key", <<KeyArm(k)>>, 0)
        /\ handle_key_events(k)
        /\ UNCHANGED <<tasks, terminal_restored, executed, requests>>

(***************************************************************************)
(* The AppEvent arms of App::run.                                          *)
(***************************************************************************)
\* self.events.next() yields the oldest AppEvent, of the given variant.
Consume(type) ==
    /\ queue # <<>>
    /\ Head(queue).type = type
    /\ LoopAwaits
    /\ queue' = Tail(queue)
    /\ last' = Head(queue)

\* A tokio::spawn'ed task: its number, what it calls and the text it sends.
Task(id, kind, input) == [id |-> id, kind |-> kind, input |-> input]

\* AppEvent::Quit => self.quit().
quit ==
    /\ Consume("Quit")
    /\ running' = FALSE
    /\ UNCHANGED <<focused_pane, input_text, response_text, safety_check_text,
                   input_cursor, response_cursor, is_loading_completion,
                   is_loading_safety_check, safety_status,
                   tasks, proc, terminal_restored, executed, keys, requests>>

\* A variant of AcceptRequest that leaves safety_status as it is.
AcceptRequestKeepsStatus(input) ==
    /\ is_loading_completion' = TRUE
    /\ safety_status' = safety_status
    /\ tasks' = tasks \cup {Task(requests + 1, "completion", input)}
    /\ requests' = requests + 1

\* handle_completion_request past its early return: the flag, the status
\* and the spawned task.
AcceptRequest(input) ==
    /\ is_loading_completion' = TRUE
    /\ safety_status' = "Unknown"
    /\ tasks' = tasks \cup {Task(requests + 1, "completion", input)}
    /\ requests' = requests + 1

\* A variant of handle_completion_request that sets the flag and the status
\* before it looks at the text.
handle_completion_request_flags_first ==
    /\ Consume("RequestCompletion")
    /\ LET input == Head(queue).arg
       IN  IF IsBlank(input)
           THEN /\ is_loading_completion' = TRUE
                /\ safety_status' = "Unknown"
                /\ UNCHANGED <<tasks, requests>>
           ELSE AcceptRequest(input)
    /\ UNCHANGED <<running, focused_pane, input_text, response_text,
                   safety_check_text, input_cursor, response_cursor,
                   is_loading_safety_check,
                   proc, terminal_restored, executed, keys>>

\* AppEvent::RequestCompletion(input) => self.handle_completion_request(input).
handle_completion_request ==
    /\ Consume("RequestCompletion")
    /\ LET input == Head(queue).arg
       IN  IF IsBlank(input)
           THEN UNCHANGED <<is_loading_completion, safety_status, tasks, requests>>
           ELSE AcceptRequest(input)
    /\ UNCHANGED <<running, focused_pane, input_text, response_text,
                   safety_check_text, input_cursor, response_cursor,
                   is_loading_safety_check,
                   proc, terminal_restored, executed, keys>>

\* A variant of check_completion_request that returns early on a blank
\* text, as handle_completion_request does.
check_completion_request_skips_blank(input, origin) ==
    IF IsBlank(input)
    THEN UNCHANGED <<is_loading_safety_check, tasks>>
    ELSE /\ is_loading_safety_check' = TRUE
         /\ tasks' = tasks \cup {Task(origin, "safety", input)}

\* check_completion_request(input): the flag and the spawned task.
check_completion_request(input, origin) ==
    /\ is_loading_safety_check' = TRUE
    /\ tasks' = tasks \cup {Task(origin, "safety", input)}

\* A variant of CompletionResponse that forgets to clear the loading flag.
CompletionResponseKeepsLoading ==
    /\ Consume("CompletionResponse")
    /\ LET response == Head(queue).arg
       IN  /\ is_loading_completion' = is_loading_completion
           /\ response_text' = response
           /\ response_cursor' = ByteLen(response)
           /\ check_completion_request(response, Head(queue).origin)
    /\ UNCHANGED <<running, focused_pane, input_text, safety_check_text,
                   input_cursor, safety_status,
                   proc, terminal_restored, executed, keys, requests>>

\* A variant of CompletionResponse that drops the response of a request
\* that a later request has superseded.
CompletionResponseDropsStale ==
    /\ Consume("CompletionResponse")
    /\ LET response == Head(queue).arg
       IN  IF Head(queue).origin < requests
           THEN UNCHANGED <<is_loading_completion, response_text,
                            response_cursor, is_loading_safety_check, tasks>>
           ELSE /\ is_loading_completion' = FALSE
                /\ response_text' = response
                /\ response_cursor' = ByteLen(response)
                /\ check_completion_request(response, Head(queue).origin)
    /\ UNCHANGED <<running, focused_pane, input_text, safety_check_text,
                   input_cursor, safety_status,
                   proc, terminal_restored, executed, keys, requests>>

\* AppEvent::CompletionResponse(response).
CompletionResponse ==
    /\ Consume("CompletionResponse")
    /\ LET response == Head(queue).arg
       IN  /\ is_loading_completion' = FALSE
           /\ response_text' = response
           /\ response_cursor' = ByteLen(response)
           /\ check_completion_request(response, Head(queue).origin)
    /\ UNCHANGED <<running, focused_pane, input_text, safety_check_text,
                   input_cursor, safety_status,
                   proc, terminal_restored, executed, keys, requests>>

\* A variant of CompletionError that has the error text checked for safety,
\* as the CompletionResponse arm does with a response.
CompletionErrorChecksSafety ==
    /\ Consume("CompletionError")
    /\ is_loading_completion' = FALSE
    /\ response_text' = ErrorPrefix \o Head(queue).arg
    /\ response_cursor' = ByteLen(ErrorPrefix \o Head(queue).arg)
    /\ check_completion_request(ErrorPrefix \o Head(queue).arg, Head(queue).origin)
    /\ UNCHANGED <<running, focused_pane, input_text, safety_check_text,
                   input_cursor, safety_status,
                   proc, terminal_restored, executed, keys, requests>>

\* A variant of CompletionError that forgets to clear the loading flag.
CompletionErrorKeepsLoading ==
    /\ Consume("CompletionError")
    /\ response_text' = ErrorPrefix \o Head(queue).arg
    /\ response_cursor' = ByteLen(ErrorPrefix \o Head(queue).arg)
    /\ UNCHANGED <<running, focused_pane, input_text, safety_check_text,
                   input_cursor, is_loading_completion,
                   is_loading_safety_check, safety_status,
                   tasks, proc, terminal_restored, executed, keys, requests>>

\* AppEvent::CompletionError(error).
CompletionError ==
    /\ Consume("CompletionError")
    /\ is_loading_completion' = FALSE
    /\ response_text' = ErrorPrefix \o Head(queue).arg
    /\ response_cursor' = ByteLen(ErrorPrefix \o Head(queue).arg)
    /\ UNCHANGED <<running, focused_pane, input_text, safety_check_text,
                   input_cursor, is_loading_safety_check, safety_status,
                   tasks, proc, terminal_restored, executed, keys, requests>>

\* A variant of SafetyStatusOf that forgets the trim.
SafetyStatusOfUntrimmed(response) ==
    IF StartsWith(response, "Y") THEN "Safe"
    ELSE IF StartsWith(response, "N") THEN "Unsafe"
    ELSE "Unknown"

\* The verdict read from the text of a SafetyCheckResponse.
SafetyStatusOf(response) ==
    IF StartsWith(Trim(response), "Y") THEN "Safe"
    ELSE IF StartsWith(Trim(response), "N") THEN "Unsafe"
    ELSE "Unknown"

\* AppEvent::SafetyCheckResponse(response).
SafetyCheckResponse ==
    /\ Consume("SafetyCheckResponse")
    /\ is_loading_safety_check' = FALSE
    /\ safety_check_text' = Head(queue).arg
    /\ safety_status' = SafetyStatusOf(Head(queue).arg)
    /\ UNCHANGED <<running, focused_pane, input_text, response_text,
                   input_cursor, response_cursor, is_loading_completion,
                   tasks, proc, terminal_restored, executed, keys, requests>>

\* AppEvent::SafetyCheckError(error).
SafetyCheckError ==
    /\ Consume("SafetyCheckError")
    /\ is_loading_safety_check' = FALSE
    /\ safety_check_text' = SafetyErrorPrefix \o Head(queue).arg
    /\ safety_status' = "Unknown"
    /\ UNCHANGED <<running, focused_pane, input_text, response_text,
                   input_cursor, response_cursor, is_loading_completion,
                   tasks, proc, terminal_restored, executed, keys, requests>>

\* One call of `sh -c command`: the command string, and whether the terminal
\* was back in normal mode when the call was made.
Exec(command, restored) == [command |-> command, restored |-> restored]

\* A variant of RestoreThenExec that restores the terminal after the exec.
ExecThenRestore(command) ==
    /\ executed' = Append(executed, Exec(command, terminal_restored))
    /\ \E outcome \in {"replaced", "failed"} : proc' = outcome
    /\ terminal_restored' = TRUE

\* A variant of RestoreThenExec that runs the text of the output pane as it
\* is when the event is handled.
RestoreThenExecResponseText(command) ==
    /\ terminal_restored' = TRUE
    /\ executed' = Append(executed, Exec(response_text, terminal_restored'))
    /\ \E outcome \in {"replaced", "failed"} : proc' = outcome

\* execute_command past its early return: ratatui::restore(), then
\* cmd.exec(), which either replaces the process or returns, and then run
\* returns the error.
RestoreThenExec(command) ==
    /\ terminal_restored' = TRUE
    /\ executed' = Append(executed, Exec(command, terminal_restored'))
    /\ \E outcome \in {"replaced", "failed"} : proc' = outcome

\* AppEvent::ExecuteCommand(command) => self.execute_command(command)?.
execute_command ==
    /\ Consume("ExecuteCommand")
    /\ LET command == Head(queue).arg
       IN  IF IsBlank(command)
           THEN UNCHANGED <<terminal_restored, executed, proc>>
           ELSE RestoreThenExec(command)
    /\ UNCHANGED <<session, tasks, keys, requests>>

(***************************************************************************)
(* The background tasks.                                                   *)
(***************************************************************************)
\* A variant of CompletionTaskEvent that takes the last choice.
CompletionTaskEventLastChoice(result, id) ==
    IF result.ok
    THEN IF result.choices # <<>>
         THEN AppEvent("CompletionResponse", result.choices[Len(result.choices)], id)
         ELSE AppEvent("CompletionError", NoResponse, id)
    ELSE AppEvent("CompletionError", result.msg, id)

\* The event the task spawned by handle_completion_request sends.
CompletionTaskEvent(result, id) ==
    IF result.ok
    THEN IF result.choices # <<>>
         THEN AppEvent("CompletionResponse", result.choices[1], id)
         ELSE AppEvent("CompletionError", NoResponse, id)
    ELSE AppEvent("CompletionError", result.msg, id)

\* The event the task spawned by check_completion_request sends.
SafetyTaskEvent(result, id) ==
    IF result.ok
    THEN IF result.choices # <<>>
         THEN AppEvent("SafetyCheckResponse", result.choices[1], id)
         ELSE AppEvent("SafetyCheckError", NoSafetyResponse, id)
    ELSE AppEvent("SafetyCheckError", result.msg, id)

\* A variant of CompletionTaskDone in which the task clears the loading flag
\* itself, through a reference to the App.
CompletionTaskDoneClearsFlag ==
    /\ tasks # {}
    /\ LoopAwaits
    /\ \E t \in tasks, reply \in CommandReplies :
        /\ t.kind = "completion"
        /\ tasks' = tasks \ {t}
        /\ send(PostedFor(CompletionTaskEvent(completion(reply), t.id), reply))
        /\ is_loading_completion' = FALSE
        /\ UNCHANGED <<running, focused_pane, input_text, response_text,
                       safety_check_text, input_cursor, response_cursor,
                       is_loading_safety_check, safety_status,
                       proc, terminal_restored, executed, keys,
                       requests, last>>

\* client.imagine_command(input) returns in a completion task.  The runtime
\* is single-threaded: tasks run while the loop awaits its next event.
CompletionTaskDone ==
    /\ tasks # {}
    /\ LoopAwaits
    /\ \E t \in tasks, reply \in CommandReplies :
        /\ t.kind = "completion"
        /\ tasks' = tasks \ {t}
        /\ send(PostedFor(CompletionTaskEvent(completion(reply), t.id), reply))
        /\ UNCHANGED <<session, proc, terminal_restored, executed, keys,
                       requests, last>>

\* infer.inspect_command(input) returns in a safety-check task.
SafetyTaskDone ==
    /\ tasks # {}
    /\ LoopAwaits
    /\ \E t \in tasks, reply \in VerdictReplies :
        /\ t.kind = "safety"
        /\ tasks' = tasks \ {t}
        /\ send(PostedFor(SafetyTaskEvent(completion(reply), t.id), reply))
        /\ UNCHANGED <<session, proc, terminal_restored, executed, keys,
                       requests, last>>

Next ==
    \/ DrawPanic
    \/ Tick
    \/ Key
    \/ quit
    \/ handle_completion_request
    \/ CompletionResponse
    \/ CompletionError
    \/ SafetyCheckResponse
    \/ SafetyCheckError
    \/ execute_command
    \/ CompletionTaskDone
    \/ SafetyTaskDone

Spec == Init /\ [][Next]_vars

(***************************************************************************)
(* Steps of the loop, recognised from the two states of a step.            *)
(***************************************************************************)
\* The loop handles a key event that takes the given arm of the match.  (A
\* finishing task changes tasks; a panic of the renderer needs DrawPanics.)
KeyStep(arm) ==
    /\ LoopAwaits
    /\ tasks' = tasks
    /\ last' = AppEvent("Key", <<arm>>, 0)

\* The loop consumes the oldest AppEvent, which is of the given variant.
\* (Every other step appends to the queue or leaves it as it is.)
ConsumeStep(type) ==
    /\ queue # <<>>
    /\ Head(queue).type = type
    /\ queue' = Tail(queue)

\* A background task finishes.  (No other step removes a task.)
TaskDoneStep == tasks' # tasks /\ tasks' \subseteq tasks

\* The text has a character that is no whitespace.
NonBlank(text) == \E i \in 1..Len(text) : text[i] # " "

\* The cursor is at one of the positions 0 .. Len(text) of the text, a
\* sequence of characters: before its first character, between two of its
\* characters, or after its last.
CursorInText(text, cursor) ==
    \E p \in 0..Len(text) : cursor = ByteLen(SubSeq(text, 1, p))

\* The cursor is after the last character of the text.
CursorAtEnd(text, cursor) == cursor = ByteLen(SubSeq(text, 1, Len(text)))

(***************************************************************************)
(* C1.  Cursor invariant: after every key event and every                  *)
(* CompletionResponse or CompletionError, each cursor is a position of its *)
(* text: 0 <= input_cursor <= length(input_text) and 0 <= response_cursor  *)
(* <= length(response_text), the texts being sequences of characters.      *)
(* It does not hold: typing a two-byte character advances the cursor by    *)
(* one byte, into the middle of the character.                             *)
(***************************************************************************)
C1_CursorInvariant ==
    /\ CursorInText(input_text, input_cursor)
    /\ CursorInText(response_text, response_cursor)

(***************************************************************************)
(* C2.  Each Enter key event handled while the input pane is focused       *)
(* appends exactly one RequestCompletion event to the internal queue, with *)
(* input_text as it is at that moment, and changes no field of the         *)
(* session; no step changes an event that is already in the queue.         *)
(***************************************************************************)
C2_EnterPostsRequest ==
    [][ /\ (KeyStep("Enter") /\ focused_pane = Input) =>
              /\ queue' = Append(queue, AppEvent("RequestCompletion", input_text, 0))
              /\ session' = session
        /\ \/ queue' = queue
           \/ queue # <<>> /\ queue' = Tail(queue)
           \/ /\ Len(queue') = Len(queue) + 1
              /\ SubSeq(queue', 1, Len(queue)) = queue ]_vars

\* Enter has just been handled on the input pane, whose text begins with a
\* blank, and the request it posted carries that text.
C2_Witness ==
    /\ last = AppEvent("Key", <<"Enter">>, 0)
    /\ focused_pane = Input
    /\ input_text = <<" ", "a">>
    /\ queue = <<AppEvent("RequestCompletion", <<" ", "a">>, 0)>>

(***************************************************************************)
(* C3.  Consuming a CompletionResponse(text), for any text, blank ones     *)
(* included, spawns exactly one safety-check task whose input is that      *)
(* text, sets is_loading_safety_check, clears is_loading_completion, sets  *)
(* response_text to the text and puts the response cursor at its end; no   *)
(* other step spawns a safety-check task.                                  *)
(***************************************************************************)
C3_ResponseSpawnsSafetyCheck ==
    [][ IF ConsumeStep("CompletionResponse")
        THEN LET text == Head(queue).arg
             IN  /\ tasks \subseteq tasks'
                 /\ Cardinality(tasks' \ tasks) = 1
                 /\ \A t \in tasks' \ tasks : t.kind = "safety" /\ t.input = text
                 /\ is_loading_safety_check' = TRUE
                 /\ is_loading_completion' = FALSE
                 /\ response_text' = text
                 /\ CursorAtEnd(text, response_cursor')
        ELSE \A t \in tasks' \ tasks : t.kind # "safety" ]_vars

\* A blank CompletionResponse has just been consumed and the safety check
\* of that blank text is in flight.
C3_Witness ==
    /\ last.type = "CompletionResponse"
    /\ last.arg = <<" ">>
    /\ response_text = <<" ">>
    /\ is_loading_safety_check
    /\ \E t \in tasks : t.kind = "safety" /\ t.input = <<" ">>

(***************************************************************************)
(* C4.  After a SafetyCheckResponse(text) is handled, safety_status is     *)
(* Safe if the text without its leading and trailing whitespace starts     *)
(* with 'Y', Unsafe if it starts with 'N', Unknown otherwise (the empty    *)
(* text included), whatever safety_status was; is_loading_safety_check is  *)
(* false and safety_check_text is the text.                                *)
(***************************************************************************)
C4_StatusFromTrimmedText ==
    last.type = "SafetyCheckResponse" =>
        LET text == last.arg
            first == CHOOSE i \in 1..(Len(text) + 1) :
                         /\ i = Len(text) + 1 \/ text[i] # " "
                         /\ \A j \in 1..(i - 1) : text[j] = " "
        IN  /\ safety_status =
                  IF first <= Len(text) /\ text[first] = "Y" THEN "Safe"
                  ELSE IF first <= Len(text) /\ text[first] = "N" THEN "Unsafe"
                  ELSE "Unknown"
            /\ is_loading_safety_check = FALSE
            /\ safety_check_text = text

\* A verdict that starts with a blank and then 'N' has just been handled:
\* the command counts as unsafe.
C4_Witness ==
    /\ last.type = "SafetyCheckResponse"
    /\ last.arg = <<" ", "N", "o">>
    /\ safety_status = "Unsafe"
    /\ safety_check_text = <<" ", "N", "o">>

(***************************************************************************)
(* C5.  As stated: in every step that handles a RequestCompletion event,   *)
(* safety_status becomes Unknown and is_loading_completion becomes true.   *)
(* It does not hold for a blank text, which is ignored.                    *)
(***************************************************************************)
C5_EveryRequestResets ==
    [][ ConsumeStep("RequestCompletion") =>
            /\ safety_status' = "Unknown"
            /\ is_loading_completion' = TRUE ]_vars

(***************************************************************************)
(* C5, amended.  In the step that handles a RequestCompletion event whose  *)
(* text is not blank, safety_status becomes Unknown and                    *)
(* is_loading_completion becomes true, whatever they were, the completion  *)
(* task for that text is spawned, and no event of that task is in the      *)
(* queue yet.                                                              *)
(***************************************************************************)
C5_AcceptedRequestResets ==
    [][ (ConsumeStep("RequestCompletion") /\ NonBlank(Head(queue).arg)) =>
            /\ safety_status' = "Unknown"
            /\ is_loading_completion' = TRUE
            /\ tasks \subseteq tasks'
            /\ Cardinality(tasks' \ tasks) = 1
            /\ \A t \in tasks' \ tasks :
                   /\ t.kind = "completion"
                   /\ t.input = Head(queue).arg
                   /\ \A i \in 1..Len(queue') : queue'[i].origin # t.id ]_vars

\* A request has just been accepted while the verdict of an earlier command
\* ("Y": safe) is still shown: the status is Unknown again.
C5_Witness ==
    /\ last.type = "RequestCompletion"
    /\ NonBlank(last.arg)
    /\ safety_check_text = <<"Y">>
    /\ safety_status = "Unknown"
    /\ is_loading_completion

(***************************************************************************)
(* C6.  focused_pane is Input (0) or Output (1) in every reachable state;  *)
(* each Up or Down key event flips it, Input to Output and Output to       *)
(* Input, so that two of them in a row restore it; no other step changes   *)
(* it.                                                                     *)
(***************************************************************************)
C6_FocusTwoStateCycle ==
    /\ [](focused_pane \in {Input, Output})
    /\ [][ IF KeyStep("Focus")
           THEN /\ focused_pane = Input => focused_pane' = Output
                /\ focused_pane = Output => focused_pane' = Input
           ELSE focused_pane' = focused_pane ]_vars

\* An Up or Down key has just brought the focus back to the input pane,
\* where it started: the key before it had moved the focus to the output pane.
C6_Witness ==
    /\ last = AppEvent("Key", <<"Focus">>, 0)
    /\ focused_pane = Input

(***************************************************************************)
(* C7.  Handling a RequestCompletion or an ExecuteCommand whose text is    *)
(* empty or whitespace only changes nothing: every field of the session    *)
(* stays as it is, no task is spawned, the terminal is not restored, no    *)
(* command is executed, and the loop goes on to await its next event.      *)
(***************************************************************************)
C7_BlankSubmissionIsNoOp ==
    /\ [][ ( /\ ConsumeStep("RequestCompletion") \/ ConsumeStep("ExecuteCommand")
             /\ ~NonBlank(Head(queue).arg) ) =>
               /\ session' = session
               /\ tasks' = tasks
               /\ terminal_restored' = terminal_restored
               /\ executed' = executed
               /\ proc' = "loop" ]_vars
    /\ []( ( /\ last.type \in {"RequestCompletion", "ExecuteCommand"}
             /\ ~NonBlank(last.arg) ) => LoopAwaits )

\* A whitespace-only command has just been handled: nothing was executed,
\* the terminal was not restored and the loop awaits its next event.
C7_Witness ==
    /\ last.type = "ExecuteCommand"
    /\ last.arg = <<" ">>
    /\ response_text = <<" ">>
    /\ executed = <<>>
    /\ ~terminal_restored
    /\ LoopAwaits

(***************************************************************************)
(* C8.  A failed network call never stops the loop.  The task of a failed  *)
(* call posts CompletionError (a completion task) or SafetyCheckError (a   *)
(* safety-check task).  Handling CompletionError(msg) clears               *)
(* is_loading_completion and sets response_text to "Error: " + msg;        *)
(* handling SafetyCheckError(msg) clears is_loading_safety_check, sets     *)
(* safety_check_text to "Safety check error: " + msg and safety_status to  *)
(* Unknown; in both cases running stays true and the loop goes on to await *)
(* its next event.                                                         *)
(***************************************************************************)
C8_TaskFailureNeverStopsLoop ==
    /\ [][ /\ TaskDoneStep =>
                 LET e == queue'[Len(queue')]
                     t == CHOOSE t \in tasks : t \notin tasks'
                 IN  e.reply.kind \in {"transport", "status", "malformed"} =>
                         /\ e.type = IF t.kind = "completion"
                                     THEN "CompletionError"
                                     ELSE "SafetyCheckError"
                         /\ running' /\ proc' = "loop"
           /\ ConsumeStep("CompletionError") =>
                 /\ is_loading_completion' = FALSE
                 /\ response_text' =
                        <<"E","r","r","o","r",":"," ">> \o Head(queue).arg
                 /\ running' /\ proc' = "loop"
           /\ ConsumeStep("SafetyCheckError") =>
                 /\ is_loading_safety_check' = FALSE
                 /\ safety_check_text' =
                        <<"S","a","f","e","t","y"," ">> \o
                        <<"c","h","e","c","k"," ">> \o
                        <<"e","r","r","o","r",":"," ">> \o Head(queue).arg
                 /\ safety_status' = "Unknown"
                 /\ running' /\ proc' = "loop" ]_vars
    /\ [](last.type \in {"CompletionError", "SafetyCheckError"} => LoopAwaits)

\* The CompletionError of a call that came back with a non-2xx status has
\* just been handled, and the loop awaits its next event.
C8_Witness ==
    /\ last.type = "CompletionError"
    /\ last.reply.kind = "status"
    /\ ~is_loading_completion
    /\ LoopAwaits

(***************************************************************************)
(* C9.  As stated: when the call of imagine_command comes back with status *)
(* 500 and body "rate limited", response_text ends as                      *)
(* "Error: API request failed with status 500: rate limited".  It does     *)
(* not: the status is printed with its canonical reason.                   *)
(***************************************************************************)
C9_NumericStatusOnly ==
    (last.type = "CompletionError" /\ last.reply = HttpFailure(500, RateLimited)) =>
        response_text =
            <<"E","r","r","o","r",":"," ">> \o
            <<"A","P","I"," ">> \o
            <<"r","e","q","u","e","s","t"," ">> \o
            <<"f","a","i","l","e","d"," ">> \o
            <<"w","i","t","h"," ">> \o
            <<"s","t","a","t","u","s"," ">> \o
            <<"5","0","0",":"," ">> \o
            <<"r","a","t","e"," ">> \o
            <<"l","i","m","i","t","e","d">>

(***************************************************************************)
(* C9, amended.  When the call of imagine_command comes back with status   *)
(* 500 and body "rate limited", handling the event of its task leaves      *)
(* response_text =                                                         *)
(* "Error: API request failed with status 500 Internal Server Error: rate  *)
(* limited" (the status as the number, a space and its canonical reason)   *)
(* and is_loading_completion = false, and no safety check is spawned for   *)
(* that request.                                                           *)
(***************************************************************************)
C9_StatusWithReason ==
    (last.type = "CompletionError" /\ last.reply = HttpFailure(500, RateLimited)) =>
        /\ response_text =
            <<"E","r","r","o","r",":"," ">> \o
            <<"A","P","I"," ">> \o
            <<"r","e","q","u","e","s","t"," ">> \o
            <<"f","a","i","l","e","d"," ">> \o
            <<"w","i","t","h"," ">> \o
            <<"s","t","a","t","u","s"," ">> \o
            <<"5","0","0"," ">> \o
            <<"I","n","t","e","r","n","a","l"," ">> \o
            <<"S","e","r","v","e","r"," ">> \o
            <<"E","r","r","o","r",":"," ">> \o
            <<"r","a","t","e"," ">> \o
            <<"l","i","m","i","t","e","d">>
        /\ is_loading_completion = FALSE
        /\ \A t \in tasks : ~(t.kind = "safety" /\ t.id = last.origin)
        /\ \A i \in 1..Len(queue) :
               queue[i].origin = last.origin =>
                   queue[i].type \notin {"SafetyCheckResponse", "SafetyCheckError"}

\* The CompletionError of the rate-limited call has just been handled while
\* the user was looking at the output pane.
C9_Witness ==
    /\ last.type = "CompletionError"
    /\ last.reply = HttpFailure(500, RateLimited)
    /\ Len(response_text) > Len(RateLimited)
    /\ focused_pane = Output

(***************************************************************************)
(* C10.  Every background task posts exactly one event when its network    *)
(* call returns: a completion task one of CompletionResponse and           *)
(* CompletionError, a safety-check task one of SafetyCheckResponse and     *)
(* SafetyCheckError.  A successful reply without choices is reported as    *)
(* the error event ("No response received", "No safety check response      *)
(* received"); otherwise the content of the first choice is posted.  No    *)
(* task's event is posted by any other step, and a task that has posted is *)
(* gone.                                                                   *)
(***************************************************************************)
\* The event e is what a task posts for the reply it is marked with.
PostedAs(e, response, error, none) ==
    IF e.reply.kind = "ok" /\ e.reply.choices # <<>>
    THEN e.type = response /\ e.arg = e.reply.choices[1]
    ELSE e.type = error /\ (e.reply.kind = "ok" => e.arg = none)

C10_TaskPostsExactlyOnce ==
    /\ [][ IF TaskDoneStep
           THEN /\ Cardinality(tasks \ tasks') = 1
                /\ Len(queue') = Len(queue) + 1
                /\ SubSeq(queue', 1, Len(queue)) = queue
                /\ LET e == queue'[Len(queue')]
                       t == CHOOSE t \in tasks : t \notin tasks'
                   IN  /\ e.origin = t.id
                       /\ IF t.kind = "completion"
                          THEN PostedAs(e, "CompletionResponse", "CompletionError",
                                        NoResponse)
                          ELSE PostedAs(e, "SafetyCheckResponse", "SafetyCheckError",
                                        NoSafetyResponse)
           ELSE Len(queue') > Len(queue) => queue'[Len(queue')].origin = 0 ]_vars
    /\ [](\A i \in 1..Len(queue) :
            LET kind == IF queue[i].type \in {"CompletionResponse", "CompletionError"}
                        THEN "completion" ELSE "safety"
            IN  queue[i].origin # 0 =>
                    /\ \A t \in tasks : ~(t.id = queue[i].origin /\ t.kind = kind)
                    /\ \A j \in 1..Len(queue) :
                           (j # i /\ queue[j].origin = queue[i].origin) =>
                               (queue[j].type \in {"CompletionResponse", "CompletionError"})
                                   # (queue[i].type \in {"CompletionResponse", "CompletionError"}))

\* The event of a completion task whose reply held two choices waits in the
\* queue: it carries the first of them.
C10_Witness ==
    \E i \in 1..Len(queue) :
        /\ queue[i].type = "CompletionResponse"
        /\ Len(queue[i].reply.choices) = 2
        /\ queue[i].arg = queue[i].reply.choices[1]
        /\ queue[i].arg # queue[i].reply.choices[2]

(***************************************************************************)
(* C11.  running starts true; it changes only in the step that consumes an *)
(* AppEvent::Quit, which makes it false (so it becomes false at most once  *)
(* and never returns to true); once it is false the loop consumes no       *)
(* further event: the queue loses no event and no field of the session     *)
(* changes, whatever is still queued or in flight.                         *)
(***************************************************************************)
C11_RunningFalseIsFinal ==
    /\ running = TRUE
    /\ [][ /\ running' # running => (running /\ ~running' /\ ConsumeStep("Quit"))
           /\ ConsumeStep("Quit") => ~running'
           /\ ~running =>
                 /\ ~running'
                 /\ session' = session
                 /\ last' = last
                 /\ Len(queue') >= Len(queue)
                 /\ SubSeq(queue', 1, Len(queue)) = queue ]_vars

\* The loop has consumed Quit and stopped while the result of a completion
\* task waits in the queue, never to be handled: the loading flag stays set.
C11_Witness ==
    /\ ~running
    /\ last.type = "Quit"
    /\ queue # <<>>
    /\ Head(queue).type = "CompletionResponse"
    /\ is_loading_completion

(***************************************************************************)
(* C12.  Handling ExecuteCommand(text) with a text that is not blank is a  *)
(* one-way step: the terminal is back in normal mode when `sh -c text` is  *)
(* called, the process is then either replaced or the loop has ended with  *)
(* the error of the failed call, and in both cases the loop consumes no    *)
(* further event: the queue loses no event and no field of the session     *)
(* changes afterwards.                                                     *)
(***************************************************************************)
C12_ExecuteIsOneWay ==
    /\ [][ /\ (ConsumeStep("ExecuteCommand") /\ NonBlank(Head(queue).arg)) =>
                 /\ terminal_restored'
                 /\ executed' =
                        Append(executed,
                               [command |-> Head(queue).arg, restored |-> TRUE])
                 /\ proc' \in {"replaced", "failed"}
                 /\ session' = session
           /\ proc \in {"replaced", "failed"} =>
                 /\ proc' = proc
                 /\ session' = session
                 /\ last' = last
                 /\ executed' = executed
                 /\ Len(queue') >= Len(queue)
                 /\ SubSeq(queue', 1, Len(queue)) = queue ]_vars
    /\ []( (last.type = "ExecuteCommand" /\ NonBlank(last.arg)) =>
               /\ proc \in {"replaced", "failed"}
               /\ ~LoopAwaits
               /\ terminal_restored )

\* The exec of the command "a" failed: the terminal is restored, the loop
\* has ended with the error, and the Quit posted after the ExecuteCommand
\* is still in the queue.
C12_Witness ==
    /\ proc = "failed"
    /\ last.type = "ExecuteCommand"
    /\ last.arg = <<"a">>
    /\ terminal_restored
    /\ executed = <<[command |-> <<"a">>, restored |-> TRUE]>>
    /\ queue = <<AppEvent("Quit", <<>>, 0)>>

(***************************************************************************)
(* C13.  The internal queue is first in, first out.  Every step that       *)
(* changes it either appends one event behind the waiting ones (a key      *)
(* handler or a finishing task sends) or removes the oldest one, which is  *)
(* the event the loop then handles; the loop handles no AppEvent it did    *)
(* not take from the head of the queue, and a handled event is gone from   *)
(* the queue.  So the events are handled in the order they were sent, each *)
(* at most once: after Enter and then Escape, RequestCompletion is ahead   *)
(* of Quit.  Key events are not ordered with the queue: a key can be       *)
(* handled while older internal events wait.                               *)
(***************************************************************************)
C13_QueueIsFifo ==
    [][ /\ queue' # queue =>
              \/ /\ queue # <<>>
                 /\ queue' = Tail(queue)
                 /\ last' = Head(queue)
              \/ /\ Len(queue') = Len(queue) + 1
                 /\ SubSeq(queue', 1, Len(queue)) = queue
                 /\ last'.type = "Key" \/ (last' = last /\ TaskDoneStep)
        /\ (last' # last /\ last'.type # "Key") =>
              /\ queue # <<>>
              /\ last' = Head(queue)
              /\ queue' = Tail(queue)
        /\ (KeyStep("Enter") /\ focused_pane = Input) =>
              /\ Len(queue') = Len(queue) + 1
              /\ queue'[Len(queue')].type = "RequestCompletion"
        /\ KeyStep("Quit") =>
              /\ Len(queue') = Len(queue) + 1
              /\ queue'[Len(queue')].type = "Quit" ]_vars

\* Enter and then Escape were pressed on the input pane before the loop got
\* to the internal queue: the key Escape was handled while the older
\* RequestCompletion waited, and Quit waits behind it.
C13_Witness ==
    /\ last = AppEvent("Key", <<"Quit">>, 0)
    /\ queue = << AppEvent("RequestCompletion", <<"a">>, 0),
                  AppEvent("Quit", <<>>, 0) >>

(***************************************************************************)
(* C14.  Overlapping requests are neither de-duplicated nor cancelled.     *)
(* Accepting a request leaves the tasks of earlier requests in flight and  *)
(* the waiting events in the queue.  The result of a superseded request (a *)
(* later request has been accepted since) is handled like any other: its   *)
(* CompletionResponse replaces response_text and spawns the safety check   *)
(* of its text, its CompletionError replaces response_text too, and either *)
(* clears is_loading_completion, although the task of the later request    *)
(* may still be in flight.  So the run in which R1 and R2 are accepted,    *)
(* R2's response is delivered first and R1's afterwards, ends with R1's    *)
(* text in response_text.                                                  *)
(***************************************************************************)
C14_NoDedupNoCancel ==
    [][ /\ ConsumeStep("RequestCompletion") =>
              /\ tasks \subseteq tasks'
              /\ queue' = Tail(queue)
        /\ (ConsumeStep("CompletionResponse") /\ Head(queue).origin < requests) =>
              /\ response_text' = Head(queue).arg
              /\ is_loading_completion' = FALSE
              /\ tasks \subseteq tasks'
              /\ \E t \in tasks' \ tasks :
                     /\ t.kind = "safety"
                     /\ t.id = Head(queue).origin
                     /\ t.input = Head(queue).arg
        /\ (ConsumeStep("CompletionError") /\ Head(queue).origin < requests) =>
              /\ response_text' = ErrorPrefix \o Head(queue).arg
              /\ is_loading_completion' = FALSE
              /\ tasks' = tasks ]_vars

\* Two requests were accepted; the response of the second was delivered
\* first (its safety check is in flight), the response of the first has
\* just been delivered: response_text is the first request's text and the
\* safety check of that text is in flight as well.
C14_Witness ==
    /\ requests = 2
    /\ last.type = "CompletionResponse"
    /\ last.origin = 1
    /\ response_text = last.arg
    /\ \E t \in tasks :
           t.kind = "safety" /\ t.id = 1 /\ t.input = response_text
    /\ \E t \in tasks :
           t.kind = "safety" /\ t.id = 2 /\ t.input # response_text

(***************************************************************************)
(* Outstanding work of the request with the given number.                  *)
(***************************************************************************)
\* The events a completion task posts, and those a safety-check task posts.
CompletionResults == {"CompletionResponse", "CompletionError"}
SafetyResults == {"SafetyCheckResponse", "SafetyCheckError"}

\* The completion task of request id is in flight, or its result waits in
\* the queue.
CompletionOutstanding(id) ==
    \/ \E t \in tasks : t.kind = "completion" /\ t.id = id
    \/ \E i \in 1..Len(queue) :
           queue[i].origin = id /\ queue[i].type \in CompletionResults

\* The safety-check task chained from request id is in flight, or its result
\* waits in the queue.
SafetyOutstanding(id) ==
    \/ \E t \in tasks : t.kind = "safety" /\ t.id = id
    \/ \E i \in 1..Len(queue) :
           queue[i].origin = id /\ queue[i].type \in SafetyResults

(***************************************************************************)
(* C15.  Whenever is_loading_completion and is_loading_safety_check are    *)
(* both true, at least two requests have been accepted and the latest of   *)
(* them was accepted while the pipeline of an earlier one had not          *)
(* reported: the safety check chained from an earlier request is still in  *)
(* flight or its result undelivered.  The step that makes both flags true  *)
(* is the acceptance of a RequestCompletion while is_loading_safety_check  *)
(* is set.  With a single request the two flags are never true together.   *)
(***************************************************************************)
C15_BothLoadingNeedsOverlap ==
    /\ []( (is_loading_completion /\ is_loading_safety_check) =>
               /\ requests >= 2
               /\ CompletionOutstanding(requests)
               /\ \E id \in 1..(requests - 1) : SafetyOutstanding(id) )
    /\ [][ ( /\ ~(is_loading_completion /\ is_loading_safety_check)
             /\ is_loading_completion' /\ is_loading_safety_check' ) =>
               /\ ConsumeStep("RequestCompletion")
               /\ NonBlank(Head(queue).arg)
               /\ is_loading_safety_check
               /\ requests' = requests + 1
               /\ \E id \in 1..requests : SafetyOutstanding(id) ]_vars

\* The second request has been accepted while the safety check of the first
\* request's command is in flight: both flags are true.
C15_Witness ==
    /\ is_loading_completion
    /\ is_loading_safety_check
    /\ requests = 2
    /\ \E t \in tasks : t.kind = "safety" /\ t.id = 1
    /\ \E t \in tasks : t.kind = "completion" /\ t.id = 2

(***************************************************************************)
(* C16.  Background tasks neither read nor write the session.  The step in *)
(* which a task finishes appends one event to the internal queue and       *)
(* changes nothing else but the set of tasks in flight: every field of the *)
(* session stays as it is.  What the task posts is decided by its kind and *)
(* the reply it received alone: two waiting results of the same kind with  *)
(* the same reply carry the same text, whatever the session was when they  *)
(* were posted.  The session changes only in steps in which the loop       *)
(* handles an event: a key event or the oldest event of the queue.         *)
(***************************************************************************)
C16_TasksOnlyPost ==
    /\ [][ /\ TaskDoneStep =>
                 /\ session' = session
                 /\ Len(queue') = Len(queue) + 1
                 /\ SubSeq(queue', 1, Len(queue)) = queue
                 /\ queue'[Len(queue')].origin # 0
                 /\ <<proc, terminal_restored, executed, keys, requests, last>>' =
                        <<proc, terminal_restored, executed, keys, requests, last>>
           /\ session' # session =>
                 /\ tasks \subseteq tasks'
                 /\ \/ last'.type = "Key" /\ queue' = queue
                    \/ /\ queue # <<>>
                       /\ queue' = Tail(queue)
                       /\ last' = Head(queue) ]_vars
    /\ [](\A i, j \in 1..Len(queue) :
              ( /\ queue[i].origin # 0
                /\ queue[j].origin # 0
                /\ queue[i].reply = queue[j].reply
                /\ (queue[i].type \in CompletionResults)
                       = (queue[j].type \in CompletionResults) ) =>
                  /\ queue[i].type = queue[j].type
                  /\ queue[i].arg = queue[j].arg)

\* The completion task of the only request has posted its response, which
\* waits in the queue: the session is as the acceptance of the request left
\* it, the loading flag still set and response_text still empty.
C16_Witness ==
    /\ requests = 1
    /\ tasks = {}
    /\ Len(queue) = 1
    /\ queue[1].type = "CompletionResponse"
    /\ queue[1].origin = 1
    /\ is_loading_completion
    /\ response_text = <<>>
    /\ last.type = "RequestCompletion"

(***************************************************************************)
(* C17.  Each Enter key event handled while the output pane is focused     *)
(* appends exactly one ExecuteCommand event, carrying response_text as it  *)
(* is at that moment, and changes no field of the session.  When an        *)
(* ExecuteCommand whose text is not blank is handled, the command given to *)
(* `sh -c` is the text of the event, whatever response_text, safety_status *)
(* and the loading flags are by then; nothing else is ever executed.       *)
(***************************************************************************)
C17_ExecutesTextOfEnter ==
    [][ /\ (KeyStep("Enter") /\ focused_pane = Output) =>
              /\ queue' = Append(queue, AppEvent("ExecuteCommand", response_text, 0))
              /\ session' = session
        /\ (ConsumeStep("ExecuteCommand") /\ NonBlank(Head(queue).arg)) =>
              /\ Len(executed') = Len(executed) + 1
              /\ SubSeq(executed', 1, Len(executed)) = executed
              /\ executed'[Len(executed')].command = Head(queue).arg
        /\ executed' # executed =>
              /\ ConsumeStep("ExecuteCommand")
              /\ NonBlank(Head(queue).arg) ]_vars

\* Enter was pressed on the output pane when its text was "a", and the text
\* was edited before the ExecuteCommand was handled: the command executed
\* is "a", not the text the pane holds now.
C17_Witness ==
    /\ last.type = "ExecuteCommand"
    /\ last.arg = <<"a">>
    /\ Len(executed) = 1
    /\ executed[1].command = <<"a">>
    /\ response_text # <<"a">>

(***************************************************************************)
(* C18.  Handling a CompletionError event spawns no task and changes only  *)
(* is_loading_completion, response_text and the response cursor:           *)
(* safety_check_text, safety_status, is_loading_safety_check, input_text,  *)
(* the input cursor, focused_pane and running stay as they are, and so do  *)
(* the tasks in flight.                                                    *)
(***************************************************************************)
C18_CompletionErrorFrame ==
    [][ ConsumeStep("CompletionError") =>
            /\ tasks' = tasks
            /\ safety_check_text' = safety_check_text
            /\ safety_status' = safety_status
            /\ is_loading_safety_check' = is_loading_safety_check
            /\ input_text' = input_text
            /\ input_cursor' = input_cursor
            /\ focused_pane' = focused_pane
            /\ running' = running
            /\ requests' = requests ]_vars

\* The error of the second request has just been handled while the safety
\* check of the first request's command is in flight: that check and its
\* loading flag are untouched, and so is the input pane.
C18_Witness ==
    /\ last.type = "CompletionError"
    /\ last.origin = 2
    /\ ~is_loading_completion
    /\ is_loading_safety_check
    /\ tasks = {Task(1, "safety", <<EAcute>>)}
    /\ input_text = <<"a">>
    /\ input_cursor = 1

(***************************************************************************)
(* C19.  A loading flag is never true without outstanding work.  In every  *)
(* reachable state, is_loading_completion implies that the completion task *)
(* of some request is in flight or its result waits in the queue, and      *)
(* is_loading_safety_check implies the same of a safety-check task; so     *)
(* with no task in flight and no task result in the queue both flags are   *)
(* false.                                                                  *)
(***************************************************************************)
C19_LoadingHasOutstandingWork ==
    /\ is_loading_completion =>
           \E id \in 1..requests : CompletionOutstanding(id)
    /\ is_loading_safety_check =>
           \E id \in 1..requests : SafetyOutstanding(id)
    /\ ( /\ tasks = {}
         /\ \A i \in 1..Len(queue) : queue[i].origin = 0 ) =>
           (~is_loading_completion /\ ~is_loading_safety_check)

\* The safety check of the only request has returned and its verdict waits
\* in the queue: no task is in flight and is_loading_safety_check is still
\* true, until the verdict is handled.
C19_Witness ==
    /\ requests = 1
    /\ tasks = {}
    /\ is_loading_safety_check
    /\ ~is_loading_completion
    /\ Len(queue) = 1
    /\ queue[1].type = "SafetyCheckResponse"

(***************************************************************************)
(* C20.  As stated: once a request is accepted, safety_status stays        *)
(* Unknown until the SafetyCheckResponse of that request's own safety      *)
(* check is delivered, and it is never Safe or Unsafe while                *)
(* is_loading_completion is true.  It does not hold: the verdict of an     *)
(* earlier request's safety check can be delivered after a later request   *)
(* was accepted.                                                           *)
(***************************************************************************)
C20_VerdictOnlyOfLatestRequest ==
    /\ [](is_loading_completion => safety_status = "Unknown")
    /\ [][ (safety_status = "Unknown" /\ safety_status' # "Unknown") =>
               /\ ConsumeStep("SafetyCheckResponse")
               /\ Head(queue).origin = requests ]_vars

(***************************************************************************)
(* C20, amended.  Accepting a RequestCompletion whose text is not blank    *)
(* makes safety_status Unknown, and it leaves Unknown only when a          *)
(* SafetyCheckResponse is delivered.  That verdict is the one of the       *)
(* request's own safety check unless the safety check of an earlier        *)
(* request was still outstanding when the request was accepted: its        *)
(* verdict is then shown as well.  So safety_status is Safe or Unsafe      *)
(* while is_loading_completion is true only under overlapping requests:    *)
(* every verdict delivered while is_loading_completion is true belongs to  *)
(* a request older than the latest, and with a single request the status   *)
(* is Unknown as long as the completion is loading.                        *)
(***************************************************************************)
C20_VerdictWhileLoadingIsOlder ==
    /\ [][ /\ (ConsumeStep("RequestCompletion") /\ NonBlank(Head(queue).arg)) =>
                 safety_status' = "Unknown"
           /\ (safety_status = "Unknown" /\ safety_status' # "Unknown") =>
                 /\ ConsumeStep("SafetyCheckResponse")
                 /\ Head(queue).origin \in 1..requests
           /\ (ConsumeStep("SafetyCheckResponse") /\ is_loading_completion) =>
                 /\ Head(queue).origin < requests
                 /\ CompletionOutstanding(requests) ]_vars
    /\ []( (is_loading_completion /\ safety_status # "Unknown") => requests >= 2 )

\* The second request is loading and the verdict of the first request's
\* command has just been delivered: the command counts as unsafe although
\* the verdict is not about the command being generated.
C20_Witness ==
    /\ is_loading_completion
    /\ requests = 2
    /\ last.type = "SafetyCheckResponse"
    /\ last.origin = 1
    /\ safety_status = "Unsafe"

(***************************************************************************)
(* Fairness of the loop: it keeps drawing frames, and the multiplexer      *)
(* eventually delivers the oldest event of the internal queue.             *)
(***************************************************************************)
\* The loop handles the oldest AppEvent of the queue.
Deliver ==
    \/ quit
    \/ handle_completion_request
    \/ CompletionResponse
    \/ CompletionError
    \/ SafetyCheckResponse
    \/ SafetyCheckError
    \/ execute_command

FairSpec == Spec /\ WF_vars(Deliver) /\ WF_vars(DrawPanic)

\* An AppEvent::Quit waits in the queue.
QuitPosted == \E i \in 1..Len(queue) : queue[i].type = "Quit"

(***************************************************************************)
(* C21.  Quitting is deferred but eventually happens.  An Escape or Ctrl-C *)
(* key event leaves running as it is and only appends AppEvent::Quit to    *)
(* the queue; if every queued event is eventually delivered, then once a   *)
(* Quit is posted running eventually becomes false, unless an              *)
(* ExecuteCommand whose text is not blank is handled first; and when the   *)
(* loop stops, the Quit is the oldest event of the queue, all events       *)
(* posted before it having been handled.  It does not hold: a key handled  *)
(* after the Escape can leave a cursor inside a character (C1), and the    *)
(* loop then panics with the Quit still in the queue.                      *)
(***************************************************************************)
C21_QuitEventuallyStops ==
    /\ [][ /\ KeyStep("Quit") =>
                 /\ running' = running
                 /\ queue' = Append(queue, AppEvent("Quit", <<>>, 0))
           /\ (running /\ ~running') =>
                 /\ queue # <<>>
                 /\ Head(queue).type = "Quit"
                 /\ queue' = Tail(queue) ]_vars
    /\ QuitPosted ~> (~running \/ executed # <<>>)

=============================================================================
